---- MODULE Spec2Model ----
(***************************************************************************)
(* Model of src/main.py, the PostgreSQL MCP server: the connection         *)
(* lifespan (database_lifespan) and the four tools that borrow its         *)
(* connection (list_tables, get_table_schema, execute_query,               *)
(* get_table_stats).                                                       *)
(*                                                                         *)
(* Python str values are sequences of one-character strings, so that       *)
(* strip, upper, startswith and replace are computed as Python computes    *)
(* them.  The database driver (psycopg) and the engine are the             *)
(* environment: each statement either faults or answers with a result      *)
(* drawn from a bounded set.                                               *)
(***************************************************************************)
EXTENDS Integers, Sequences, FiniteSets, TLC

VARIABLES env, lpc, lraised, database_url, conn, handles, connectAttempts,
          closeCalls, session, inv

vars == <<env, lpc, lraised, database_url, conn, handles, connectAttempts,
          closeCalls, session, inv>>

lifespanVars == <<env, lpc, lraised, database_url, conn, connectAttempts, closeCalls>>

-----------------------------------------------------------------------------
(* Bounds of the model *)

\* most pieces a DATABASE_URL value is composed of
MaxUrlParts == 3
\* most pieces a query string is composed of
MaxQueryParts == 2
\* most rows a result set holds
MaxRows == 2
\* number of tool invocations that may overlap
NumInvocations == 2

-----------------------------------------------------------------------------
(* Python str operations *)

Whitespace == {" ", "\t", "\n"}

LowerLetters == <<"a","b","c","d","e","f","g","h","i","j","k","l","m",
                  "n","o","p","q","r","s","t","u","v","w","x","y","z">>
UpperLetters == <<"A","B","C","D","E","F","G","H","I","J","K","L","M",
                  "N","O","P","Q","R","S","T","U","V","W","X","Y","Z">>

\* str.upper() on one character
UpperChar(c) ==
    IF \E k \in 1..Len(LowerLetters) : LowerLetters[k] = c
    THEN UpperLetters[CHOOSE k \in 1..Len(LowerLetters) : LowerLetters[k] = c]
    ELSE c

\* str.upper()
Upper(s) == [k \in 1..Len(s) |-> UpperChar(s[k])]

RECURSIVE LStrip(_)
LStrip(s) == IF s # <<>> /\ Head(s) \in Whitespace THEN LStrip(Tail(s)) ELSE s

RECURSIVE RStrip(_)
RStrip(s) ==
    IF s # <<>> /\ s[Len(s)] \in Whitespace THEN RStrip(SubSeq(s, 1, Len(s) - 1)) ELSE s

\* str.strip()
Strip(s) == RStrip(LStrip(s))

\* str.startswith(prefix)
StartsWith(s, prefix) ==
    /\ Len(prefix) <= Len(s)
    /\ SubSeq(s, 1, Len(prefix)) = prefix

\* str.replace(old, new): every non-overlapping occurrence, left to right
RECURSIVE Replace(_, _, _)
Replace(s, old, new) ==
    IF Len(s) < Len(old) THEN s
    ELSE IF StartsWith(s, old)
         THEN new \o Replace(SubSeq(s, Len(old) + 1, Len(s)), old, new)
         ELSE <<Head(s)>> \o Replace(Tail(s), old, new)

\* concatenation of a sequence of strings
RECURSIVE Concat(_)
Concat(parts) == IF parts = <<>> THEN <<>> ELSE Head(parts) \o Concat(Tail(parts))

\* every string made of at most n pieces
StringsOf(pieces, n) ==
    UNION {{Concat(p) : p \in [1..k -> pieces]} : k \in 0..n}

-----------------------------------------------------------------------------
(* Configuration: the environment variables database_lifespan reads *)

\* os.getenv(name) of a variable that is not set
Unset == <<"None">>

SqlAlchemyPrefix ==
    <<"p","o","s","t","g","r","e","s","q","l","+","p","s","y","c","o","p","g",":","/","/">>
CanonicalPrefix == <<"p","o","s","t","g","r","e","s","q","l",":","/","/">>

DefaultHost == <<"l","o","c","a","l","h","o","s","t">>
DefaultUser == <<"p","o","s","t","g","r","e","s">>
DefaultPort == <<"5","4","3","2">>
DefaultName == <<"p","o","s","t","g","r","e","s">>

UrlPieces ==
    {SqlAlchemyPrefix, CanonicalPrefix, <<"u">>, <<":","s","3">>, <<"@","h","/","d">>}

UrlValues == StringsOf(UrlPieces, MaxUrlParts)

PasswordValues == {Unset, <<>>, <<"s","3">>}

Envs == [DATABASE_URL : {Unset} \cup UrlValues, DATABASE_PASSWORD : PasswordValues]

EnvSamples ==
    { [DATABASE_URL |-> Unset, DATABASE_PASSWORD |-> <<"s","3">>],
      [DATABASE_URL |-> SqlAlchemyPrefix \o <<"u">> \o <<":","s","3">> \o <<"@","h","/","d">>,
       DATABASE_PASSWORD |-> Unset] }

\* os.getenv(name, default)
Getenv(value, default) == IF value = Unset THEN default ELSE value

\* Python truthiness of an optional str: None and "" are false
Truthy(value) == value # Unset /\ value # <<>>

\* the f-string of lines 64-66
ComposeUrl(db_user, db_password, db_host, db_port, db_name) ==
    CanonicalPrefix \o db_user \o <<":">> \o db_password \o <<"@">> \o db_host
        \o <<":">> \o db_port \o <<"/">> \o db_name

\* line 70
StripDriverPrefix(url) == Replace(url, SqlAlchemyPrefix, CanonicalPrefix)

\* line 59: the only credential check of the lifespan, made on the discrete path
ConfigError(e) ==
    /\ ~Truthy(e.DATABASE_URL)
    /\ ~Truthy(Getenv(e.DATABASE_PASSWORD, <<>>))

\* lines 49-70: the connection target
ResolveTarget(e) ==
    IF ~Truthy(e.DATABASE_URL)
    THEN ComposeUrl(DefaultUser, Getenv(e.DATABASE_PASSWORD, <<>>), DefaultHost,
                    DefaultPort, DefaultName)
    ELSE StripDriverPrefix(e.DATABASE_URL)

-----------------------------------------------------------------------------
(* database_lifespan *)

NoConn == 0

NewHandle == [state |-> "open"]

\* a finally that closes without looking at conn
FinallyCloseCallsUnconditional(c, n) == n + 1

\* lines 92-95: finally
FinallyCloseCalls(c, n) == IF c # NoConn THEN n + 1 ELSE n

FinallyHandles(c, hs) == IF c # NoConn THEN [hs EXCEPT ![c].state = "closed"] ELSE hs

\* lines 49-74: read the configuration and resolve the target
Resolve ==
    /\ lpc = "start"
    /\ IF ConfigError(env)
       THEN /\ lpc' = "done"
            /\ lraised' = "ValueError"
            /\ UNCHANGED database_url
       ELSE /\ lpc' = "connect"
            /\ database_url' = ResolveTarget(env)
            /\ UNCHANGED lraised
    /\ UNCHANGED <<env, conn, handles, connectAttempts, closeCalls, session, inv>>

\* lines 75-85: connect succeeds, the lifespan yields the context
ConnectOk ==
    /\ lpc = "connect"
    /\ connectAttempts' = connectAttempts + 1
    /\ handles' = Append(handles, NewHandle)
    /\ conn' = Len(handles) + 1
    /\ lpc' = "serving"
    /\ UNCHANGED <<env, lraised, database_url, closeCalls, session, inv>>

\* a lifespan that tries to connect again after a failure
ConnectFailRetry ==
    /\ lpc = "connect"
    /\ connectAttempts' = connectAttempts + 1
    /\ UNCHANGED <<env, lpc, lraised, database_url, conn, handles, closeCalls, session, inv>>

\* lines 77, 86-95: connect raises; logged, re-raised (no retry), finally
ConnectFail ==
    /\ lpc = "connect"
    /\ connectAttempts' = connectAttempts + 1
    /\ lpc' = "done"
    /\ lraised' = "OperationalError"
    /\ closeCalls' = FinallyCloseCalls(conn, closeCalls)
    /\ handles' = FinallyHandles(conn, handles)
    /\ UNCHANGED <<env, database_url, conn, session, inv>>

\* lines 85, 92-95: the server stops; the generator resumes and runs finally
ExitNormal ==
    /\ lpc = "serving"
    /\ lpc' = "done"
    /\ closeCalls' = FinallyCloseCalls(conn, closeCalls)
    /\ handles' = FinallyHandles(conn, handles)
    /\ UNCHANGED <<env, lraised, database_url, conn, connectAttempts, session, inv>>

\* lines 85, 89-95: an exception is thrown into the generator while serving
ExitException ==
    /\ lpc = "serving"
    /\ lpc' = "done"
    /\ lraised' = "Exception"
    /\ closeCalls' = FinallyCloseCalls(conn, closeCalls)
    /\ handles' = FinallyHandles(conn, handles)
    /\ UNCHANGED <<env, database_url, conn, connectAttempts, session, inv>>

Lifespan == Resolve \/ ConnectOk \/ ConnectFail \/ ExitNormal \/ ExitException

-----------------------------------------------------------------------------
(* Tool invocations *)

Invocations == 1..NumInvocations

\* an invocation: its position, its arguments and locals, what the driver
\* answered to each statement (fetched), and how it ended
Idle == [pc |-> "idle", tool |-> "none", arg |-> <<>>, db |-> NoConn,
         outcome |-> "pending", logged |-> FALSE, faulted |-> FALSE,
         row_count |-> <<>>, fetched |-> <<>>, result |-> <<>>]

\* values of a field that holds an int or a str
IntVal(n) == <<"int", n>>
StrVal(s) == <<"str", s>>

\* how the driver answers a statement: the engine runs it, the engine rejects
\* it, the session is lost while it runs, or the connection is already closed
StmtOutcomes == {"ok", "engine_error", "connection_lost", "closed"}

Usable(i) == inv[i].db # NoConn /\ handles[inv[i].db].state = "open"

\* await cur.execute(...) on the shared connection
Execute(i, stmt, o) ==
    /\ o \in StmtOutcomes
    /\ (o = "closed") <=> ~Usable(i)
    /\ session' = IF o = "closed" THEN session
                  ELSE Append(session, [inv |-> i, stmt |-> stmt])
    /\ handles' = IF o = "connection_lost"
                  THEN [handles EXCEPT ![inv[i].db].state = "lost"]
                  ELSE handles

\* the first lines of every tool: db = ctx.request_context.lifespan_context.conn
Begin(r, tool, arg) == [r EXCEPT !.pc = "stmt1", !.tool = tool, !.arg = arg, !.db = conn]

Return(r, result) == [r EXCEPT !.pc = "done", !.outcome = "returned", !.result = result]

\* logger.exception(...); raise
LogAndRaise(r) == [r EXCEPT !.pc = "done", !.outcome = "raised", !.logged = TRUE]

-----------------------------------------------------------------------------
(* list_tables *)

\* lines 149-151
list_tables_except(r) == LogAndRaise(r)

\* line 134
Call_list_tables(i) ==
    /\ lpc = "serving"
    /\ inv[i].pc = "idle"
    /\ inv' = [inv EXCEPT ![i] = Begin(@, "list_tables", <<>>)]
    /\ UNCHANGED <<lifespanVars, handles, session>>

\* lines 143-151
Run_list_tables(i, o, tables) ==
    /\ inv[i].pc = "stmt1"
    /\ inv[i].tool = "list_tables"
    /\ Execute(i, "tables", o)
    /\ inv' = [inv EXCEPT ![i] =
                 IF o = "ok"
                 THEN Return([@ EXCEPT !.fetched = <<tables>>],
                             [tables |-> tables, count |-> Len(tables)])
                 ELSE list_tables_except([@ EXCEPT !.faulted = TRUE])]
    /\ UNCHANGED lifespanVars

-----------------------------------------------------------------------------
(* get_table_schema *)

\* lines 198-200
get_table_schema_except(r) == LogAndRaise(r)

\* a schema result that does not test for an empty column list
SchemaResultUnchecked(table_name, columns) ==
    [table_name |-> table_name, columns |-> columns, column_count |-> Len(columns)]

\* lines 186-197
SchemaResult(table_name, columns) ==
    IF columns = <<>>
    THEN [error |-> <<"Table not found", table_name>>, table_name |-> table_name,
          columns |-> <<>>]
    ELSE [table_name |-> table_name, columns |-> columns, column_count |-> Len(columns)]

\* line 167
Call_get_table_schema(i, table_name) ==
    /\ lpc = "serving"
    /\ inv[i].pc = "idle"
    /\ inv' = [inv EXCEPT ![i] = Begin(@, "get_table_schema", table_name)]
    /\ UNCHANGED <<lifespanVars, handles, session>>

\* lines 181-200
Run_get_table_schema(i, o, columns) ==
    /\ inv[i].pc = "stmt1"
    /\ inv[i].tool = "get_table_schema"
    /\ Execute(i, "columns", o)
    /\ inv' = [inv EXCEPT ![i] =
                 IF o = "ok"
                 THEN Return([@ EXCEPT !.fetched = <<columns>>],
                             SchemaResult(@.arg, columns))
                 ELSE get_table_schema_except([@ EXCEPT !.faulted = TRUE])]
    /\ UNCHANGED lifespanVars

-----------------------------------------------------------------------------
(* execute_query *)

ReadOnlyPrefixes == {<<"S","E","L","E","C","T">>, <<"W","I","T","H">>, <<"S","H","O","W">>}

\* lines 219-220
IsReadOnly(query) ==
    LET query_upper == Upper(Strip(query))
    IN  \E prefix \in ReadOnlyPrefixes : StartsWith(query_upper, prefix)

\* lines 221-225
Rejection ==
    [error |-> "Only SELECT, WITH, and SHOW queries are allowed", rows |-> <<>>,
     row_count |-> 0]

\* list(row.keys()) of a dict row, a sequence of <<key, value>>
Keys(row) == [k \in 1..Len(row) |-> row[k][1]]

\* a column list that is never derived from the rows
QueryColumnsDropped(rows) == <<>>

\* line 235
QueryColumns(rows) == IF rows # <<>> THEN Keys(rows[1]) ELSE <<>>

\* lines 232-236
QueryResult(rows) ==
    [rows |-> rows, row_count |-> Len(rows), columns |-> QueryColumns(rows)]

\* a handler that turns the fault into an error envelope
execute_query_swallow(r) ==
    Return(r, [error |-> "Query failed", rows |-> <<>>, row_count |-> 0])

\* lines 237-239
execute_query_except(r) == LogAndRaise(r)

\* lines 216-225
Call_execute_query(i, query) ==
    /\ lpc = "serving"
    /\ inv[i].pc = "idle"
    /\ inv' = [inv EXCEPT ![i] =
                 IF IsReadOnly(query)
                 THEN Begin(@, "execute_query", query)
                 ELSE Return(Begin(@, "execute_query", query), Rejection)]
    /\ UNCHANGED <<lifespanVars, handles, session>>

\* lines 227-239
Run_execute_query(i, o, rows) ==
    /\ inv[i].pc = "stmt1"
    /\ inv[i].tool = "execute_query"
    /\ Execute(i, "query", o)
    /\ inv' = [inv EXCEPT ![i] =
                 IF o = "ok"
                 THEN Return([@ EXCEPT !.fetched = <<rows>>], QueryResult(rows))
                 ELSE execute_query_except([@ EXCEPT !.faulted = TRUE])]
    /\ UNCHANGED lifespanVars

-----------------------------------------------------------------------------
(* get_table_stats *)

\* lines 289-291
get_table_stats_except(r) == LogAndRaise(r)

\* line 265; fetchone() is <<>> for None, <<row>> otherwise
CountOf(count_result) ==
    IF count_result # <<>> THEN IntVal(count_result[1].count) ELSE IntVal(0)

\* lines 285-287
SizeOf(size_result, field) ==
    IF size_result # <<>> THEN StrVal(size_result[1][field]) ELSE StrVal("Unknown")

\* lines 282-288
StatsResult(table_name, row_count, size_result) ==
    [table_name |-> table_name,
     row_count |-> row_count,
     total_size |-> SizeOf(size_result, "total_size"),
     table_size |-> SizeOf(size_result, "table_size"),
     indexes_size |-> SizeOf(size_result, "indexes_size")]

\* line 255
Call_get_table_stats(i, table_name) ==
    /\ lpc = "serving"
    /\ inv[i].pc = "idle"
    /\ inv' = [inv EXCEPT ![i] = Begin(@, "get_table_stats", table_name)]
    /\ UNCHANGED <<lifespanVars, handles, session>>

\* lines 257-265, 289-291: the count query
Run_count(i, o, count_result) ==
    /\ inv[i].pc = "stmt1"
    /\ inv[i].tool = "get_table_stats"
    /\ Execute(i, "count", o)
    /\ inv' = [inv EXCEPT ![i] =
                 IF o = "ok"
                 THEN [@ EXCEPT !.pc = "stmt2", !.fetched = <<count_result>>,
                                !.row_count = CountOf(count_result)]
                 ELSE get_table_stats_except([@ EXCEPT !.faulted = TRUE])]
    /\ UNCHANGED lifespanVars

\* lines 267-291: the size query and the result
Run_size(i, o, size_result) ==
    /\ inv[i].pc = "stmt2"
    /\ inv[i].tool = "get_table_stats"
    /\ Execute(i, "size", o)
    /\ inv' = [inv EXCEPT ![i] =
                 IF o = "ok"
                 THEN Return([@ EXCEPT !.fetched = Append(@, size_result)],
                             StatsResult(@.arg, @.row_count, size_result))
                 ELSE get_table_stats_except([@ EXCEPT !.faulted = TRUE])]
    /\ UNCHANGED lifespanVars

-----------------------------------------------------------------------------
(* Inputs: tool arguments and the driver's answers *)

TableNames == {"users", "ghost"}

ProjectsTable == [table_name |-> "projects", table_type |-> "BASE TABLE"]
StaffTable == [table_name |-> "staff", table_type |-> "BASE TABLE"]
AllTables == <<ProjectsTable, StaffTable, [table_name |-> "users", table_type |-> "VIEW"]>>

Min(a, b) == IF a < b THEN a ELSE b

\* answers to the tables query: the catalog's tables in name order
TableResults == {SubSeq(AllTables, 1, n) : n \in 0..Min(MaxRows, Len(AllTables))}

UsersColumns ==
    << [column_name |-> "id", data_type |-> "integer", character_maximum_length |-> "NULL",
        is_nullable |-> "NO", column_default |-> "nextval"],
       [column_name |-> "name", data_type |-> "text", character_maximum_length |-> "NULL",
        is_nullable |-> "YES", column_default |-> "NULL"],
       [column_name |-> "email", data_type |-> "character varying",
        character_maximum_length |-> "255", is_nullable |-> "YES", column_default |-> "NULL"] >>

\* answers to the columns query: the table's columns in ordinal order
ColumnResults == {SubSeq(UsersColumns, 1, n) : n \in 0..Min(MaxRows, Len(UsersColumns))}

ColumnLists == {<<>>, <<"a">>, <<"a", "b">>}

RowOf(cols, k) == [j \in 1..Len(cols) |-> <<cols[j], k>>]

\* answers to a caller's query: n rows over one column list
ResultSets == {[k \in 1..n |-> RowOf(cols, k)] : n \in 0..MaxRows, cols \in ColumnLists}

\* fetchone() of the count query
CountResults == {<<>>} \cup {<<[count |-> n]>> : n \in 0..MaxRows}

SizeRow == [total_size |-> "16 kB", table_size |-> "8192 bytes", indexes_size |-> "8192 bytes"]

\* fetchone() of the size query
SizeResults == {<<>>, <<SizeRow>>}

QueryPieces ==
    { <<" ">>, <<"s","e","l","e","c","t">>, <<"W","I","T","H">>, <<"S","h","o","w">>,
      <<"e","d">>, <<"d","e","l","e","t","e">>, <<"1">> }

Queries == StringsOf(QueryPieces, MaxQueryParts)

\* the inputs of the overlapping invocations
TableSamples == {"users"}
QuerySamples == {<<"s","e","l","e","c","t">>, <<"d","e","l","e","t","e">>}
TableResultSamples == {<<ProjectsTable, StaffTable>>}
ColumnResultSamples == {<<>>, UsersColumns}
ResultSetSamples == {<<>>, <<RowOf(<<"a">>, 1)>>}
CountResultSamples == {<<>>, <<[count |-> 1]>>}

-----------------------------------------------------------------------------
(* Specifications *)

InitWith(envs) ==
    /\ env \in envs
    /\ lpc = "start"
    /\ lraised = "none"
    /\ database_url = Unset
    /\ conn = NoConn
    /\ handles = <<>>
    /\ connectAttempts = 0
    /\ closeCalls = 0
    /\ session = <<>>
    /\ inv = [i \in Invocations |-> Idle]

\* the whole server: the lifespan and overlapping tool invocations
Init == InitWith(EnvSamples)

Next ==
    \/ Lifespan
    \/ \E i \in Invocations :
        \/ Call_list_tables(i)
        \/ \E o \in StmtOutcomes, tables \in TableResultSamples : Run_list_tables(i, o, tables)
        \/ \E table_name \in TableSamples : Call_get_table_schema(i, table_name)
        \/ \E o \in StmtOutcomes, columns \in ColumnResultSamples :
              Run_get_table_schema(i, o, columns)
        \/ \E query \in QuerySamples : Call_execute_query(i, query)
        \/ \E o \in StmtOutcomes, rows \in ResultSetSamples : Run_execute_query(i, o, rows)
        \/ \E table_name \in TableSamples : Call_get_table_stats(i, table_name)
        \/ \E o \in StmtOutcomes, count_result \in CountResultSamples :
              Run_count(i, o, count_result)
        \/ \E o \in StmtOutcomes, size_result \in SizeResults : Run_size(i, o, size_result)

Spec == Init /\ [][Next]_vars

\* the lifespan alone, over every configuration within the bounds
InitConfig == InitWith(Envs)

NextConfig == Lifespan

SpecConfig == InitConfig /\ [][NextConfig]_vars

\* one invocation at a time, over every argument and driver answer within the bounds
InitTools == InitWith(EnvSamples)

NextTools ==
    \/ Lifespan
    \/ Call_list_tables(1)
    \/ \E o \in StmtOutcomes, tables \in TableResults : Run_list_tables(1, o, tables)
    \/ \E table_name \in TableNames : Call_get_table_schema(1, table_name)
    \/ \E o \in StmtOutcomes, columns \in ColumnResults : Run_get_table_schema(1, o, columns)
    \/ \E query \in Queries : Call_execute_query(1, query)
    \/ \E o \in StmtOutcomes, rows \in ResultSets : Run_execute_query(1, o, rows)
    \/ \E table_name \in TableNames : Call_get_table_stats(1, table_name)
    \/ \E o \in StmtOutcomes, count_result \in CountResults : Run_count(1, o, count_result)
    \/ \E o \in StmtOutcomes, size_result \in SizeResults : Run_size(1, o, size_result)

SpecTools == InitTools /\ [][NextTools]_vars

-----------------------------------------------------------------------------
(* Properties *)

Done(i) == inv[i].pc = "done"
Returned(i) == Done(i) /\ inv[i].outcome = "returned"
Raised(i) == Done(i) /\ inv[i].outcome = "raised"

\* the statements invocation i issued on the session
IssuedBy(i) == {k \in DOMAIN session : session[k].inv = i}

\* the first whitespace-delimited word of s
RECURSIVE FirstWord(_)
FirstWord(s) ==
    IF s = <<>> \/ Head(s) \in Whitespace THEN <<>> ELSE <<Head(s)>> \o FirstWord(Tail(s))

LeadingToken(query) == Upper(FirstWord(Strip(query)))

Keywords == {<<"S","E","L","E","C","T">>, <<"W","I","T","H">>, <<"S","H","O","W">>}

\* C1: an execute_query call whose trimmed, case-insensitive leading token is
\* not SELECT, WITH or SHOW has returned the error envelope
\* {error, rows: [], row_count: 0} and has issued no statement.
C1_LeadingTokenRejected ==
    \A i \in Invocations :
        (inv[i].tool = "execute_query" /\ LeadingToken(inv[i].arg) \notin Keywords)
            => /\ Returned(i)
               /\ inv[i].result = Rejection
               /\ IssuedBy(i) = {}

SuccessEnvelope(i) ==
    /\ inv[i].tool = "execute_query"
    /\ Returned(i)
    /\ "columns" \in DOMAIN inv[i].result

\* C2 as claimed: in every success envelope of execute_query row_count is the
\* number of rows, and columns is empty exactly when rows is empty.
C2_ColumnsEmptyIffNoRows ==
    \A i \in Invocations :
        SuccessEnvelope(i)
            => /\ inv[i].result.row_count = Len(inv[i].result.rows)
               /\ (inv[i].result.columns = <<>>) <=> (inv[i].result.rows = <<>>)

\* C2 amended: in every success envelope of execute_query the rows are the
\* fetched rows, row_count is their number, and columns is the key list of the
\* first row, so it is empty exactly when there is no row or the rows have no
\* column.
C2_ColumnsOfFirstRow ==
    \A i \in Invocations :
        SuccessEnvelope(i)
            => LET res == inv[i].result
               IN  /\ res.rows = inv[i].fetched[1]
                   /\ res.row_count = Len(res.rows)
                   /\ res.rows # <<>> => res.columns = Keys(res.rows[1])
                   /\ (res.columns = <<>>)
                        <=> (res.rows = <<>> \/ Keys(res.rows[1]) = <<>>)

\* a success envelope with rows that have no column
C2_Witness ==
    \E i \in Invocations :
        /\ SuccessEnvelope(i)
        /\ inv[i].result.row_count = MaxRows
        /\ inv[i].result.columns = <<>>

\* first position of sub in s, 0 when absent
Find(s, sub) ==
    LET at == {k \in 1..(Len(s) - Len(sub) + 1) : SubSeq(s, k, k + Len(sub) - 1) = sub}
    IN  IF at = {} THEN 0 ELSE CHOOSE k \in at : \A m \in at : k <= m

Before(s, sub) == IF Find(s, sub) = 0 THEN s ELSE SubSeq(s, 1, Find(s, sub) - 1)
After(s, sub) ==
    IF Find(s, sub) = 0 THEN <<>> ELSE SubSeq(s, Find(s, sub) + Len(sub), Len(s))

\* the password of a connection URI scheme://[user[:password]@]host[/db]
UrlPassword(url) ==
    LET authority == Before(After(url, <<":","/","/">>), <<"/">>)
        userinfo == IF Find(authority, <<"@">>) = 0 THEN <<>> ELSE Before(authority, <<"@">>)
    IN  After(userinfo, <<":">>)

NoPasswordResolvable(e) ==
    IF Truthy(e.DATABASE_URL)
    THEN UrlPassword(e.DATABASE_URL) = <<>>
    ELSE ~Truthy(Getenv(e.DATABASE_PASSWORD, <<>>))

\* C3: when no password is resolvable (a connection string without a password,
\* or no connection string and no discrete password), the lifespan makes no
\* connect attempt and never serves: it ends with the configuration error.
C3_NoPasswordFailsFast ==
    NoPasswordResolvable(env)
        => /\ connectAttempts = 0
           /\ lpc \in {"start", "done"}
           /\ lpc = "done" => lraised = "ValueError"

C5_NoInterleaving ==
    \A a, b, c \in DOMAIN session :
        (a < b /\ b < c /\ session[a].inv = session[c].inv)
            => session[b].inv = session[a].inv

\* C6: a get_table_schema call whose columns query was answered returns, for
\* zero columns, exactly {error, table_name, columns: []}, and for at least one
\* column the fetched columns in their order with column_count their number.
C6_SchemaShape ==
    \A i \in Invocations :
        (inv[i].tool = "get_table_schema" /\ Done(i) /\ ~inv[i].faulted)
            => LET res == inv[i].result
                   columns == inv[i].fetched[1]
               IN  /\ Returned(i)
                   /\ res.table_name = inv[i].arg
                   /\ res.columns = columns
                   /\ IF columns = <<>>
                      THEN DOMAIN res = {"error", "table_name", "columns"}
                      ELSE /\ DOMAIN res = {"table_name", "columns", "column_count"}
                           /\ res.column_count = Len(columns)

\* the not-found result of a table without columns
C6_Witness ==
    \E i \in Invocations :
        /\ inv[i].tool = "get_table_schema"
        /\ Returned(i)
        /\ inv[i].fetched = <<(<<>>)>>
        /\ "error" \in DOMAIN inv[i].result

Unknown == StrVal("Unknown")

\* C7: in a get_table_stats result, row_count is the "unknown" sentinel when
\* the count query yielded no row, and total_size, table_size and indexes_size
\* are the sentinel when the size query yielded no row.
C7_UnknownSentinel ==
    \A i \in Invocations :
        (inv[i].tool = "get_table_stats" /\ Returned(i))
            => LET res == inv[i].result
               IN  /\ inv[i].fetched[1] = <<>> => res.row_count = Unknown
                   /\ inv[i].fetched[2] = <<>> =>
                         /\ res.total_size = Unknown
                         /\ res.table_size = Unknown
                         /\ res.indexes_size = Unknown

\* C8: a connection string that starts with postgresql+psycopg:// resolves to
\* the same string with only that leading scheme replaced by postgresql://, and
\* any other connection string resolves to itself.
C8_OnlyLeadingScheme ==
    (Truthy(env.DATABASE_URL) /\ lpc # "start")
        => database_url =
              IF StartsWith(env.DATABASE_URL, SqlAlchemyPrefix)
              THEN CanonicalPrefix
                     \o SubSeq(env.DATABASE_URL, Len(SqlAlchemyPrefix) + 1,
                               Len(env.DATABASE_URL))
              ELSE env.DATABASE_URL

\* C9: at most one connection handle exists, at most one connect attempt is
\* made (none after a failure or a lost session), and every invocation uses
\* the lifespan's handle.
C9_SingleHandle ==
    /\ Len(handles) <= 1
    /\ connectAttempts <= 1
    /\ conn \in {NoConn} \cup DOMAIN handles
    /\ \A i \in Invocations :
          inv[i].pc # "idle" => (inv[i].db = conn /\ conn # NoConn)

\* two invocations have used the handle and its session is lost
C9_Witness ==
    /\ connectAttempts = 1
    /\ conn # NoConn
    /\ handles[conn].state = "lost"
    /\ \A i \in Invocations : Done(i) /\ inv[i].db = conn

SoftResult(i) == Returned(i) /\ "error" \in DOMAIN inv[i].result

\* C10: an invocation one of whose statements failed has logged the fault and
\* ended by raising, without a result; the only results that carry an error
\* are the read-only rejection and the table-not-found outcome, neither of
\* them after a fault.
C10_FaultsReraised ==
    \A i \in Invocations :
        /\ inv[i].faulted =>
              (Raised(i) /\ inv[i].logged /\ DOMAIN inv[i].result = {})
        /\ Raised(i) => (inv[i].faulted /\ inv[i].logged)
        /\ SoftResult(i) =>
              \/ inv[i].tool = "execute_query" /\ inv[i].result = Rejection
                    /\ inv[i].fetched = <<>>
              \/ inv[i].tool = "get_table_schema" /\ inv[i].fetched = <<(<<>>)>>
                    /\ inv[i].result = SchemaResult(inv[i].arg, <<>>)

\* the size query of get_table_stats failed after the count query succeeded
C10_Witness ==
    \E i \in Invocations :
        /\ inv[i].tool = "get_table_stats"
        /\ Len(inv[i].fetched) = 1
        /\ inv[i].faulted
        /\ Raised(i)
        /\ inv[i].logged

====
